---- MODULE Spec2Model ----
(***************************************************************************)
(* Model of hardware/hardware.ino: an ESP8266 web server that maps five    *)
(* HTTP routes to fixed infrared transmissions and one tracked boolean,    *)
(* isFanOn.  The serial log is left out (it is write-only output); the     *)
(* web server, the infrared sender and the fan are the environment.  A     *)
(* request that matches no registered route reaches no handler of this     *)
(* program and is not an event of the model.                               *)
(***************************************************************************)
EXTENDS Integers, Sequences, FiniteSets, TLC

(* ------------------------------ bounds -------------------------------- *)

\* Number of events (handled requests and reboots) after the first boot.
MaxEvents == 4

(* ------------------------- program constants -------------------------- *)

\* constexpr uint8_t IR_BITS = 24;
IR_BITS == 24

\* constexpr uint32_t IR_CODE_TOGGLE_FAN = 0x80C0C0;
IR_CODE_TOGGLE_FAN == 8437952

\* constexpr uint32_t IR_CODE_ADD_POWER = 0x80B0B0;
IR_CODE_ADD_POWER == 8433840

\* constexpr uint32_t IR_CODE_LOWER_POWER = 0x808888;
IR_CODE_LOWER_POWER == 8423560

(* ------------------------------- state -------------------------------- *)

VARIABLES
    pc,        \* "setup" before setup() has returned, "loop" afterwards
    routes,    \* the routes registered with server.on(...)
    isFanOn,   \* bool isFanOn
    irLog,     \* every call of irsend.send(...) so far, in order
    response,  \* the response sent to the request handled last
    realFan,   \* the power state of the fan itself (environment)
    trace      \* history: the boots and the handled requests, in order

vars == <<pc, routes, isFanOn, irLog, response, realFan, trace>>

\* A request that carries no "state" argument (server.hasArg("state") false).
NoArg == "<none>"

\* The values of the "state" argument a POST /set_state is tried with.
StateArgs == {NoArg, "on", "off", "ON", "", "toggle"}

\* No response has been sent yet.
NoResponse == [code |-> 0, location |-> "", contentType |-> "", content |-> <<>>]

(* --------------------------- pure operators --------------------------- *)

\* sendIRSignal(code, bits): irsend.send(MIDEA24, code, bits).  The three
\* codes passed are 24-bit constants, well inside uint32_t; bits is uint8_t.
sendIRSignal(log, code, bits) ==
    Append(log, [protocol |-> "MIDEA24", code |-> code, bits |-> bits % 256])

\* The page handleRoot builds: the state shown and the main button (the
\* dynamic section), then the forms of the two static sections.
rootPage_swapped(fanOn) ==
    << IF fanOn THEN "OFF" ELSE "ON",
       IF fanOn THEN "Turn OFF" ELSE "Turn ON",
       "/send_add_power", "/send_lower_power",
       "/set_state state=on", "/set_state state=off" >>

rootPage(fanOn) ==
    << IF fanOn THEN "ON" ELSE "OFF",
       IF fanOn THEN "Turn OFF" ELSE "Turn ON",
       "/send_add_power", "/send_lower_power",
       "/set_state state=on", "/set_state state=off" >>

\* server.sendHeader("Location", "/"); server.send(303);
redirectToRoot == [code |-> 303, location |-> "/", contentType |-> "", content |-> <<>>]

\* isFanOn = !isFanOn;
toggled_setOn(fanOn) == TRUE

toggled(fanOn) == ~fanOn

\* The body of handleSetState up to the redirect: the value isFanOn has
\* after it, for the "state" argument of the request.
synced_onFlips(fanOn, stateArg) ==
    IF stateArg # NoArg
    THEN IF stateArg = "on" THEN ~fanOn
         ELSE IF stateArg = "off" THEN FALSE
         ELSE fanOn
    ELSE fanOn

synced_elseOff(fanOn, stateArg) ==
    IF stateArg # NoArg
    THEN IF stateArg = "on" THEN TRUE
         ELSE FALSE
    ELSE fanOn

synced(fanOn, stateArg) ==
    IF stateArg # NoArg
    THEN IF stateArg = "on" THEN TRUE
         ELSE IF stateArg = "off" THEN FALSE
         ELSE fanOn
    ELSE fanOn

\* The fan flips its power on the toggle code and on nothing else.
fanReceives(fan, code) == IF code = IR_CODE_TOGGLE_FAN THEN ~fan ELSE fan

\* One entry of the history: what was handled and the state it left.
Event(uri, method, arg, on, fan) ==
    [uri |-> uri, method |-> method, arg |-> arg, on |-> on, fan |-> fan]

\* server.on(uri, method, fn) has been called and setup() has returned.
Registered(uri, method, fn) ==
    /\ pc = "loop"
    /\ [uri |-> uri, method |-> method, fn |-> fn] \in routes

(* ------------------------------ actions ------------------------------- *)

\* Static initialisation: bool isFanOn = false; nothing registered yet.
Init ==
    /\ pc = "setup"
    /\ routes = {}
    /\ isFanOn = FALSE
    /\ irLog = <<>>
    /\ response = NoResponse
    /\ realFan \in BOOLEAN
    /\ trace = << Event("boot", "-", NoArg, FALSE, realFan) >>

\* setup(): once WiFi is connected, registers the five routes and starts
\* the server.
setup ==
    /\ pc = "setup"
    /\ routes' = { [uri |-> "/", method |-> "GET", fn |-> "handleRoot"],
                   [uri |-> "/toggle", method |-> "POST", fn |-> "handleToggle"],
                   [uri |-> "/set_state", method |-> "POST", fn |-> "handleSetState"],
                   [uri |-> "/send_add_power", method |-> "POST", fn |-> "handleSendAddPower"],
                   [uri |-> "/send_lower_power", method |-> "POST", fn |-> "handleSendLowerPower"] }
    /\ pc' = "loop"
    /\ UNCHANGED <<isFanOn, irLog, response, realFan, trace>>

\* handleRoot(): GET /
handleRoot ==
    /\ Registered("/", "GET", "handleRoot")
    /\ Len(trace) <= MaxEvents
    /\ response' = [code |-> 200, location |-> "", contentType |-> "text/html",
                    content |-> rootPage(isFanOn)]
    /\ trace' = Append(trace, Event("/", "GET", NoArg, isFanOn, realFan))
    /\ UNCHANGED <<pc, routes, isFanOn, irLog, realFan>>

\* handleToggle(): POST /toggle
handleToggle_noSend ==
    /\ Registered("/toggle", "POST", "handleToggle")
    /\ Len(trace) <= MaxEvents
    /\ isFanOn' = toggled(isFanOn)
    /\ response' = redirectToRoot
    /\ trace' = Append(trace, Event("/toggle", "POST", NoArg, isFanOn', realFan))
    /\ UNCHANGED <<pc, routes, irLog, realFan>>

handleToggle ==
    /\ Registered("/toggle", "POST", "handleToggle")
    /\ Len(trace) <= MaxEvents
    /\ irLog' = sendIRSignal(irLog, IR_CODE_TOGGLE_FAN, IR_BITS)
    /\ realFan' = fanReceives(realFan, IR_CODE_TOGGLE_FAN)
    /\ isFanOn' = toggled(isFanOn)
    /\ response' = redirectToRoot
    /\ trace' = Append(trace, Event("/toggle", "POST", NoArg, isFanOn', realFan'))
    /\ UNCHANGED <<pc, routes>>

\* handleSetState(): POST /set_state
handleSetState_sends ==
    /\ Registered("/set_state", "POST", "handleSetState")
    /\ Len(trace) <= MaxEvents
    /\ \E stateArg \in StateArgs :
         /\ isFanOn' = synced(isFanOn, stateArg)
         /\ irLog' = IF isFanOn' # isFanOn
                     THEN sendIRSignal(irLog, IR_CODE_TOGGLE_FAN, IR_BITS)
                     ELSE irLog
         /\ realFan' = IF isFanOn' # isFanOn
                       THEN fanReceives(realFan, IR_CODE_TOGGLE_FAN)
                       ELSE realFan
         /\ trace' = Append(trace, Event("/set_state", "POST", stateArg, isFanOn', realFan'))
    /\ response' = redirectToRoot
    /\ UNCHANGED <<pc, routes>>

handleSetState ==
    /\ Registered("/set_state", "POST", "handleSetState")
    /\ Len(trace) <= MaxEvents
    /\ \E stateArg \in StateArgs :
         /\ isFanOn' = synced(isFanOn, stateArg)
         /\ trace' = Append(trace, Event("/set_state", "POST", stateArg, isFanOn', realFan))
    /\ response' = redirectToRoot
    /\ UNCHANGED <<pc, routes, irLog, realFan>>

\* handleSendAddPower(): POST /send_add_power
handleSendAddPower_lowerCode ==
    /\ Registered("/send_add_power", "POST", "handleSendAddPower")
    /\ Len(trace) <= MaxEvents
    /\ irLog' = sendIRSignal(irLog, IR_CODE_LOWER_POWER, IR_BITS)
    /\ realFan' = fanReceives(realFan, IR_CODE_LOWER_POWER)
    /\ response' = redirectToRoot
    /\ trace' = Append(trace, Event("/send_add_power", "POST", NoArg, isFanOn, realFan'))
    /\ UNCHANGED <<pc, routes, isFanOn>>

handleSendAddPower_turnsOn ==
    /\ Registered("/send_add_power", "POST", "handleSendAddPower")
    /\ Len(trace) <= MaxEvents
    /\ irLog' = sendIRSignal(irLog, IR_CODE_ADD_POWER, IR_BITS)
    /\ realFan' = fanReceives(realFan, IR_CODE_ADD_POWER)
    /\ isFanOn' = TRUE
    /\ response' = redirectToRoot
    /\ trace' = Append(trace, Event("/send_add_power", "POST", NoArg, isFanOn', realFan'))
    /\ UNCHANGED <<pc, routes>>

handleSendAddPower ==
    /\ Registered("/send_add_power", "POST", "handleSendAddPower")
    /\ Len(trace) <= MaxEvents
    /\ irLog' = sendIRSignal(irLog, IR_CODE_ADD_POWER, IR_BITS)
    /\ realFan' = fanReceives(realFan, IR_CODE_ADD_POWER)
    /\ response' = redirectToRoot
    /\ trace' = Append(trace, Event("/send_add_power", "POST", NoArg, isFanOn, realFan'))
    /\ UNCHANGED <<pc, routes, isFanOn>>

\* handleSendLowerPower(): POST /send_lower_power
handleSendLowerPower_noRedirect ==
    /\ Registered("/send_lower_power", "POST", "handleSendLowerPower")
    /\ Len(trace) <= MaxEvents
    /\ irLog' = sendIRSignal(irLog, IR_CODE_LOWER_POWER, IR_BITS)
    /\ realFan' = fanReceives(realFan, IR_CODE_LOWER_POWER)
    /\ response' = [code |-> 200, location |-> "", contentType |-> "", content |-> <<>>]
    /\ trace' = Append(trace, Event("/send_lower_power", "POST", NoArg, isFanOn, realFan'))
    /\ UNCHANGED <<pc, routes, isFanOn>>

handleSendLowerPower ==
    /\ Registered("/send_lower_power", "POST", "handleSendLowerPower")
    /\ Len(trace) <= MaxEvents
    /\ irLog' = sendIRSignal(irLog, IR_CODE_LOWER_POWER, IR_BITS)
    /\ realFan' = fanReceives(realFan, IR_CODE_LOWER_POWER)
    /\ response' = redirectToRoot
    /\ trace' = Append(trace, Event("/send_lower_power", "POST", NoArg, isFanOn, realFan'))
    /\ UNCHANGED <<pc, routes, isFanOn>>

\* A power cycle or reset: the globals are initialised again and setup()
\* runs again.  What was transmitted, and the fan, are outside the device.
Reboot_persisted ==
    /\ Len(trace) <= MaxEvents
    /\ pc' = "setup"
    /\ routes' = {}
    /\ trace' = Append(trace, Event("boot", "-", NoArg, isFanOn, realFan))
    /\ UNCHANGED <<isFanOn, irLog, response, realFan>>

Reboot ==
    /\ Len(trace) <= MaxEvents
    /\ pc' = "setup"
    /\ routes' = {}
    /\ isFanOn' = FALSE
    /\ trace' = Append(trace, Event("boot", "-", NoArg, isFanOn', realFan))
    /\ UNCHANGED <<irLog, response, realFan>>

\* loop(): server.handleClient() hands one request at a time to its handler
\* and returns when the handler has.
loop ==
    \/ handleRoot
    \/ handleToggle
    \/ handleSetState
    \/ handleSendAddPower
    \/ handleSendLowerPower

Next ==
    \/ setup
    \/ loop
    \/ Reboot

Spec == Init /\ [][Next]_vars

(* ----------------------- reading of the history ---------------------- *)

Last(s) == s[Len(s)]

\* This step handles one request to `uri` (or is a boot, for "boot").
StepOf(uri) == Len(trace') = Len(trace) + 1 /\ Last(trace').uri = uri

\* The "state" argument of the request this step handles.
StepArg == Last(trace').arg

\* The signal the claims name for a code: MIDEA24, that code, 24 bits.
Signal(code) == [protocol |-> "MIDEA24", code |-> code, bits |-> 24]

\* Index of the last boot in the history (the first entry is a boot).
LastBoot == CHOOSE b \in 1..Len(trace) :
                /\ trace[b].uri = "boot"
                /\ \A j \in (b + 1)..Len(trace) : trace[j].uri # "boot"

\* Index of the last event that can write isFanOn.
LastWrite == CHOOSE w \in 1..Len(trace) :
                /\ trace[w].uri \in {"boot", "/toggle", "/set_state"}
                /\ \A j \in (w + 1)..Len(trace) :
                       trace[j].uri \notin {"boot", "/toggle", "/set_state"}

\* Number of handled toggle requests among the events i+1..j.
Toggles(i, j) == Cardinality({n \in (i + 1)..j : trace[n].uri = "/toggle"})

\* No /set_state request and no boot among the events i+1..j.
NoSync(i, j) == \A n \in (i + 1)..j : trace[n].uri \notin {"/set_state", "boot"}

\* The history records the tracked state and the fan as they are.
HistoryIsCurrent == Last(trace).on = isFanOn /\ Last(trace).fan = realFan

(* ------------------------------- claims ------------------------------- *)

\* What one toggle step does, and what follows for a run of them.
C1_ToggleStep ==
    StepOf("/toggle") =>
        /\ isFanOn' = ~isFanOn
        /\ irLog' = Append(irLog, Signal(8437952))

C1_Parity ==
    /\ HistoryIsCurrent
    /\ \A i \in 1..Len(trace) : \A j \in i..Len(trace) :
           NoSync(i, j) =>
               ((trace[j].on # trace[i].on) <=> (Toggles(i, j) % 2 = 1))
    /\ NoSync(LastBoot, Len(trace)) =>
           (isFanOn <=> (Toggles(LastBoot, Len(trace)) % 2 = 1))

\* C1: every handled POST /toggle negates isFanOn and transmits exactly one
\* signal, code 0x80C0C0 (8437952) with 24 bits; so over any run of events
\* of one boot without a /set_state request, isFanOn has changed iff the
\* number of toggles handled in it is odd, and since boot it is true iff
\* that number is odd.
C1_Theorem == [][C1_ToggleStep]_vars /\ []C1_Parity

\* Three toggles in a row since boot have left isFanOn true.
C1_Witness ==
    /\ Len(trace) >= 4
    /\ \A n \in (Len(trace) - 2)..Len(trace) : trace[n].uri = "/toggle"
    /\ NoSync(LastBoot, Len(trace))
    /\ Toggles(LastBoot, Len(trace)) = 3
    /\ isFanOn
    /\ Len(irLog) >= 3

\* What one /set_state step does.
C2_SetStep ==
    StepOf("/set_state") =>
        /\ StepArg = "on" => isFanOn' = TRUE
        /\ StepArg = "off" => isFanOn' = FALSE
        /\ (Last(trace).uri = "/set_state" /\ Last(trace).arg = StepArg)
               => isFanOn' = isFanOn

\* C2: a handled POST /set_state with state=on leaves isFanOn true and with
\* state=off leaves it false, whatever it was; the same request handled
\* again leaves the state it left the first time.
C2_Theorem == [][C2_SetStep]_vars

\* state=on handled twice while the state was off, then state=off handled
\* while the state was on.
C2_Witness ==
    /\ Len(trace) >= 4
    /\ LET n == Len(trace) IN
         /\ trace[n - 3].on = FALSE
         /\ trace[n - 2].uri = "/set_state" /\ trace[n - 2].arg = "on"
         /\ trace[n - 1].uri = "/set_state" /\ trace[n - 1].arg = "on"
         /\ trace[n].uri = "/set_state" /\ trace[n].arg = "off"
    /\ isFanOn = FALSE

\* C3: handling POST /set_state transmits nothing: whatever the state
\* argument is, or without one, the signals transmitted are the same after
\* the request as before.
C3_Theorem == [][StepOf("/set_state") => irLog' = irLog]_vars

\* A /set_state request that changed the state, after a signal was sent.
C3_Witness ==
    /\ Len(trace) >= 3
    /\ Last(trace).uri = "/set_state"
    /\ Last(trace).on # trace[Len(trace) - 1].on
    /\ Len(irLog) >= 1

\* What a /set_state step with a missing or unknown argument does.
C4_MalformedStep ==
    (StepOf("/set_state") /\ StepArg \notin {"on", "off"}) =>
        /\ isFanOn' = isFanOn
        /\ irLog' = irLog
        /\ response'.code = 303
        /\ response'.location = "/"
        /\ pc' = "loop"
        /\ routes' = routes

\* C4: a POST /set_state without the state argument, or with a value that
\* is not exactly "on" or "off", changes neither isFanOn nor the signals
\* transmitted, and is answered with the 303 redirect to "/" like any other;
\* the server goes on serving.
C4_Theorem == [][C4_MalformedStep]_vars

\* state=ON (wrong case) was handled while the fan was tracked as on.
C4_Witness ==
    /\ Last(trace).uri = "/set_state"
    /\ Last(trace).arg = "ON"
    /\ isFanOn
    /\ response.code = 303
    /\ \E n \in 1..Len(trace) : trace[n].uri = "/set_state" /\ trace[n].arg = NoArg

\* C5 as stated: each of the five route handlers finishes every request
\* with the redirect to the root page (303, Location "/").
C5_Original ==
    Last(trace).uri \in {"/", "/toggle", "/set_state",
                         "/send_add_power", "/send_lower_power"}
        => (response.code = 303 /\ response.location = "/")

\* What each handler answers, and how much it transmits.
C5_Step ==
    /\ (StepOf("/toggle") \/ StepOf("/set_state")
          \/ StepOf("/send_add_power") \/ StepOf("/send_lower_power"))
           => (response'.code = 303 /\ response'.location = "/")
    /\ StepOf("/") =>
           /\ response'.code = 200
           /\ response'.location = ""
           /\ response'.contentType = "text/html"
    /\ Len(irLog') \in {Len(irLog), Len(irLog) + 1}

\* C5 as amended: the four POST handlers finish every request with the
\* redirect to the root page; the handler of "/" answers 200 with the page
\* and no Location; no handler transmits more than one signal.
C5_Theorem == [][C5_Step]_vars

\* Three of the POST routes have been handled, then "/".
C5_Witness ==
    /\ \A u \in {"/set_state", "/send_add_power", "/send_lower_power"} :
           \E n \in 1..Len(trace) : trace[n].uri = u
    /\ Last(trace).uri = "/"
    /\ response.code = 200

\* The routes that transmit, and the code the claim gives for each.
IsIRRoute(e) == e.uri \in {"/toggle", "/send_add_power", "/send_lower_power"}

CodeOf(uri) ==
    CASE uri = "/toggle" -> 8437952
      [] uri = "/send_add_power" -> 8433840
      [] uri = "/send_lower_power" -> 8423560

\* C6: the signals transmitted are, in order, exactly one per handled
\* request to /toggle, /send_add_power and /send_lower_power: 0x80C0C0,
\* 0x80B0B0 and 0x808888 (8437952, 8433840, 8423560), each with 24 bits.
C6_Theorem ==
    LET sent == SelectSeq(trace, IsIRRoute)
    IN  /\ Len(irLog) = Len(sent)
        /\ \A n \in 1..Len(irLog) : irLog[n] = Signal(CodeOf(sent[n].uri))

\* All three codes have been transmitted, one of them twice.
C6_Witness ==
    /\ Len(irLog) = 4
    /\ {irLog[n].code : n \in 1..Len(irLog)} = {8437952, 8433840, 8423560}

\* C7: after every boot, whatever isFanOn was before it, isFanOn is false
\* as long as no toggle or set_state request has been handled since.
C7_Theorem ==
    (\A n \in (LastBoot + 1)..Len(trace) : trace[n].uri \notin {"/toggle", "/set_state"})
        => isFanOn = FALSE

\* A reboot while the fan was tracked as on, and the server is up again.
C7_Witness ==
    /\ LastBoot > 1
    /\ trace[LastBoot - 1].on = TRUE
    /\ pc = "loop"
    /\ Last(trace).uri = "/"
    /\ isFanOn = FALSE

\* What one GET / step does.
C8_RootStep ==
    StepOf("/") =>
        /\ response'.code = 200
        /\ response'.content[1] = (IF isFanOn THEN "ON" ELSE "OFF")
        /\ response'.content[2] = (IF isFanOn THEN "Turn OFF" ELSE "Turn ON")
        /\ response'.content[1] = (IF trace[LastWrite].on THEN "ON" ELSE "OFF")
        /\ isFanOn' = isFanOn
        /\ irLog' = irLog

\* C8: GET / answers 200 with a page showing "ON" and "Turn OFF" exactly
\* when isFanOn is true, "OFF" and "Turn ON" exactly when it is false; it
\* changes neither isFanOn nor the signals transmitted; and the state shown
\* is the one the last toggle or set_state request (or the boot) produced.
C8_Theorem == [][C8_RootStep]_vars

\* The page was served right after a toggle and shows ON.
C8_Witness ==
    /\ Len(trace) >= 3
    /\ Last(trace).uri = "/"
    /\ trace[Len(trace) - 1].uri = "/toggle"
    /\ response.code = 200
    /\ response.content[1] = "ON"
    /\ response.content[2] = "Turn OFF"

\* What one power-adjustment step does.
C9_PowerStep ==
    /\ StepOf("/send_add_power") =>
           (isFanOn' = isFanOn /\ irLog' = Append(irLog, Signal(8433840)))
    /\ StepOf("/send_lower_power") =>
           (isFanOn' = isFanOn /\ irLog' = Append(irLog, Signal(8423560)))

\* C9: handling POST /send_add_power or POST /send_lower_power transmits
\* its code and leaves isFanOn as it was, on or off.
C9_Theorem == [][C9_PowerStep]_vars

\* Power was raised while the fan was tracked as off, and lowered while it
\* was tracked as on.
C9_Witness ==
    /\ \E n \in 1..Len(trace) : trace[n].uri = "/send_add_power" /\ ~trace[n].on
    /\ \E n \in 1..Len(trace) : trace[n].uri = "/send_lower_power" /\ trace[n].on
    /\ Len(irLog) >= 3

\* Agreement of isFanOn with the fan, per step and since the last boot.
C10_Step ==
    (StepOf("/toggle") \/ StepOf("/send_add_power")
       \/ StepOf("/send_lower_power") \/ StepOf("/"))
        => ((isFanOn' = realFan') <=> (isFanOn = realFan))

C10_Agree ==
    (trace[LastBoot].fan = FALSE /\ NoSync(LastBoot, Len(trace)))
        => isFanOn = realFan

\* C10: with a fan that flips on every toggle code and on nothing else,
\* whether isFanOn agrees with the fan is the same after every /toggle,
\* /send_add_power, /send_lower_power and GET / request as before it; and
\* if the fan was off at the last boot and no /set_state request has been
\* handled since, isFanOn equals the fan's state.
C10_Theorem == [][C10_Step]_vars /\ []C10_Agree

\* Rebooted with the fan off, then toggled: tracked on, and the fan is on.
C10_Witness ==
    /\ LastBoot > 1
    /\ trace[LastBoot].fan = FALSE
    /\ NoSync(LastBoot, Len(trace))
    /\ Last(trace).uri = "/toggle"
    /\ isFanOn /\ realFan

====
